---- MODULE Spec2Model ----
(***************************************************************************)
(* A model of the rlox bytecode virtual machine (src/src/vm.rs) and of its *)
(* driver (src/src/main.rs): the Chunk with its instruction bytes, its     *)
(* per-byte line table and its constant pool, the seven instruction kinds  *)
(* with their unmarshal (encode) and marshal (decode) steps, the fixed     *)
(* operand Stack, and the interpreter loop of Chunk::interpret.            *)
(*                                                                         *)
(* Offsets, indices and cursors are 0-based as in the source; TLA+         *)
(* sequences are 1-based, so At(s, o) reads element o of a Vec.            *)
(***************************************************************************)
EXTENDS Integers, Sequences, FiniteSets, TLC

(***************************************************************************)
(* Program constants.                                                      *)
(***************************************************************************)
RETURN == 1
CONSTANT_OP == 2
NEGATE == 3
ADD == 4
SUBTRACT == 5
MULTIPLY == 6
DIVIDE == 7

\* values: [Value; 256]
STACK_MAX == 256
\* `as u8` keeps the low 8 bits of the pool index
U8_MODULUS == 256
\* cursor: usize.  The width of usize depends on the target (16, 32 or 64
\* bits); the model takes the 16-bit one, the only one whose modulus TLC's
\* integers hold.  What matters is that 0 - 1 wraps to USIZE_MODULUS - 1.
USIZE_MODULUS == 65536

(***************************************************************************)
(* Bounds of the model.                                                    *)
(***************************************************************************)
\* writes the driver issues on a chunk that starts empty
MaxWrites == 3
\* writes the driver still issues on a chunk that already holds many constants
MaxTail == 1
\* calls of VM::interpret on one VM
MaxRuns == 2

(***************************************************************************)
(* Value = f64.  A value is a pair <<n, d>>:                               *)
(*   d > 0, n # 0   the finite number n/d in lowest terms                  *)
(*   <<0, 1>>, <<0, -1>>   +0.0 and -0.0                                   *)
(*   <<1, 0>>, <<-1, 0>>   +infinity and -infinity                         *)
(*   <<0, 0>>              NaN                                             *)
(* Finite arithmetic is exact: the rounding of f64 and its overflow to     *)
(* infinity are not modelled.  The special values follow IEEE-754.         *)
(***************************************************************************)
Abs(x) == IF x < 0 THEN -x ELSE x

RECURSIVE Gcd(_, _)
Gcd(a, b) == IF b = 0 THEN a ELSE Gcd(b, a % b)

NaN == <<0, 0>>
PosZero == <<0, 1>>
NegZero == <<0, -1>>

IsNaN(v) == v[1] = 0 /\ v[2] = 0
IsInf(v) == v[1] # 0 /\ v[2] = 0
IsZero(v) == v[1] = 0 /\ v[2] # 0
\* the sign bit of a value that is not NaN: 1 or -1
Sign(v) == IF v[1] = 0 THEN v[2] ELSE IF v[1] > 0 THEN 1 ELSE -1
Inf(s) == <<s, 0>>
Zero(s) == <<0, s>>
\* the finite value n/d (d > 0), in lowest terms; a zero result takes sign s
Rat(n, d, s) ==
    IF n = 0 THEN Zero(s)
    ELSE LET g == Gcd(Abs(n), d) IN <<n \div g, d \div g>>
\* numerator and denominator of a finite value
Num(v) == v[1]
Den(v) == IF v[1] = 0 THEN 1 ELSE v[2]

\* -a
NegV(a) ==
    IF IsNaN(a) THEN NaN
    ELSE IF IsZero(a) THEN Zero(-a[2])
    ELSE <<-a[1], a[2]>>

\* a + b
AddV(a, b) ==
    IF IsNaN(a) \/ IsNaN(b) THEN NaN
    ELSE IF IsInf(a) /\ IsInf(b) THEN (IF Sign(a) = Sign(b) THEN a ELSE NaN)
    ELSE IF IsInf(a) THEN a
    ELSE IF IsInf(b) THEN b
    ELSE IF IsZero(a) /\ IsZero(b)
         THEN (IF Sign(a) = -1 /\ Sign(b) = -1 THEN NegZero ELSE PosZero)
    ELSE Rat(Num(a) * Den(b) + Num(b) * Den(a), Den(a) * Den(b), 1)

\* a - b
SubV(a, b) == AddV(a, NegV(b))

\* a * b
MulV(a, b) ==
    IF IsNaN(a) \/ IsNaN(b) THEN NaN
    ELSE IF (IsInf(a) /\ IsZero(b)) \/ (IsZero(a) /\ IsInf(b)) THEN NaN
    ELSE IF IsInf(a) \/ IsInf(b) THEN Inf(Sign(a) * Sign(b))
    ELSE Rat(Num(a) * Num(b), Den(a) * Den(b), Sign(a) * Sign(b))

\* a / b, with no zero check
DivV(a, b) ==
    IF IsNaN(a) \/ IsNaN(b) THEN NaN
    ELSE IF (IsInf(a) /\ IsInf(b)) \/ (IsZero(a) /\ IsZero(b)) THEN NaN
    ELSE IF IsInf(a) \/ IsZero(b) THEN Inf(Sign(a) * Sign(b))
    ELSE IF IsInf(b) THEN Zero(Sign(a) * Sign(b))
    ELSE LET n == Num(a) * Den(b)
             d == Den(a) * Num(b)
         IN  IF d < 0 THEN Rat(-n, -d, Sign(a) * Sign(b))
             ELSE Rat(n, d, Sign(a) * Sign(b))

(***************************************************************************)
(* The inputs of the driver: literals and line numbers (Line = u16).       *)
(* 1.2 and 3.4 are literals of main.rs, 100 and 101 its line numbers.      *)
(***************************************************************************)
Literals == {<<6, 5>>, <<17, 5>>}
LineNumbers == {100, 101}
\* the literal (5.6) and line of the constants a long chunk starts with
FillLiteral == <<28, 5>>
FillLine == 0

(***************************************************************************)
(* Vec access by 0-based index.                                            *)
(***************************************************************************)
At(s, o) == s[o + 1]
InRange(s, o) == 0 <= o /\ o < Len(s)

(***************************************************************************)
(* Chunk and Pool.                                                         *)
(***************************************************************************)
\* Chunk::new
ChunkNew == [instructions |-> <<>>, lines |-> <<>>, pool |-> <<>>]

\* a Pool::add that puts the constant in front of the others
PoolAdd_Front(pool, constant) ==
    [pool |-> <<constant>> \o pool, location |-> Len(pool)]

\* a Pool::add that returns the length after the push
PoolAdd_LengthAfter(pool, constant) ==
    [pool |-> Append(pool, constant), location |-> Len(pool) + 1]

\* Pool::add: the pool after the push, and the location returned
PoolAdd(pool, constant) ==
    [pool |-> Append(pool, constant), location |-> Len(pool)]

\* Pool::get: indexing a Vec out of range panics
PoolGet(pool, location) ==
    IF InRange(pool, location)
    THEN [panic |-> FALSE, value |-> At(pool, location)]
    ELSE [panic |-> TRUE, value |-> NaN]

\* an unmarshal that pushes the opcode byte and forgets its line
OpUnmarshal_NoLine(c, op, line) ==
    [c EXCEPT !.instructions = Append(@, op)]

\* unmarshal of the zero-operand instructions: one opcode byte, one line
OpUnmarshal(c, op, line) ==
    [c EXCEPT !.instructions = Append(@, op), !.lines = Append(@, line)]

ReturnUnmarshal(c, line) == OpUnmarshal(c, RETURN, line)
NegateUnmarshal(c, line) == OpUnmarshal(c, NEGATE, line)
AddUnmarshal(c, line) == OpUnmarshal(c, ADD, line)
SubtractUnmarshal(c, line) == OpUnmarshal(c, SUBTRACT, line)
MultiplyUnmarshal(c, line) == OpUnmarshal(c, MULTIPLY, line)
DivideUnmarshal(c, line) == OpUnmarshal(c, DIVIDE, line)

\* a Constant::unmarshal that records a line for the opcode byte alone
ConstantUnmarshal_OneLine(c, value, line) ==
    LET added == PoolAdd(c.pool, value)
    IN  [instructions |->
            Append(Append(c.instructions, CONSTANT_OP), added.location % U8_MODULUS),
         lines |-> Append(c.lines, line),
         pool |-> added.pool]

\* Constant::unmarshal: opcode byte, the pool location cast to u8, and the
\* two line slots `line` and 0
ConstantUnmarshal(c, value, line) ==
    LET added == PoolAdd(c.pool, value)
    IN  [instructions |->
            Append(Append(c.instructions, CONSTANT_OP), added.location % U8_MODULUS),
         lines |-> Append(Append(c.lines, line), 0),
         pool |-> added.pool]

(***************************************************************************)
(* Instruction values.  The zero-operand kinds carry nothing; a Constant   *)
(* carries its f64 value.                                                  *)
(***************************************************************************)
ReturnNew == [kind |-> RETURN]
NegateNew == [kind |-> NEGATE]
AddNew == [kind |-> ADD]
SubtractNew == [kind |-> SUBTRACT]
MultiplyNew == [kind |-> MULTIPLY]
DivideNew == [kind |-> DIVIDE]
ConstantNew(value) == [kind |-> CONSTANT_OP, value |-> value]

(***************************************************************************)
(* marshal: the bytes consumed and the instruction decoded at an offset.   *)
(* The zero-operand kinds read nothing of the chunk.                       *)
(***************************************************************************)
ReturnMarshal(c, offset) == [panic |-> FALSE, consumed |-> 1, inst |-> ReturnNew]
NegateMarshal(c, offset) == [panic |-> FALSE, consumed |-> 1, inst |-> NegateNew]
AddMarshal(c, offset) == [panic |-> FALSE, consumed |-> 1, inst |-> AddNew]
SubtractMarshal(c, offset) == [panic |-> FALSE, consumed |-> 1, inst |-> SubtractNew]
MultiplyMarshal(c, offset) == [panic |-> FALSE, consumed |-> 1, inst |-> MultiplyNew]
DivideMarshal(c, offset) == [panic |-> FALSE, consumed |-> 1, inst |-> DivideNew]

\* a Constant::marshal that reports the opcode byte alone as consumed
ConstantMarshal_OneByte(c, offset) ==
    IF ~InRange(c.instructions, offset + 1)
    THEN [panic |-> TRUE, consumed |-> 1, inst |-> ConstantNew(NaN)]
    ELSE LET loc == At(c.instructions, offset + 1)
             got == PoolGet(c.pool, loc)
         IN  [panic |-> got.panic, consumed |-> 1, inst |-> ConstantNew(got.value)]

\* Constant::marshal: reads the byte after the opcode and looks it up in the
\* pool; either index panics when out of range
ConstantMarshal(c, offset) ==
    IF ~InRange(c.instructions, offset + 1)
    THEN [panic |-> TRUE, consumed |-> 2, inst |-> ConstantNew(NaN)]
    ELSE LET loc == At(c.instructions, offset + 1)
             got == PoolGet(c.pool, loc)
         IN  [panic |-> got.panic, consumed |-> 2, inst |-> ConstantNew(got.value)]

\* the marshal of the kind `op`
Marshal(op, c, offset) ==
    CASE op = RETURN -> ReturnMarshal(c, offset)
      [] op = CONSTANT_OP -> ConstantMarshal(c, offset)
      [] op = NEGATE -> NegateMarshal(c, offset)
      [] op = ADD -> AddMarshal(c, offset)
      [] op = SUBTRACT -> SubtractMarshal(c, offset)
      [] op = MULTIPLY -> MultiplyMarshal(c, offset)
      [] op = DIVIDE -> DivideMarshal(c, offset)

(***************************************************************************)
(* Stack.  push and pop do not test the cursor themselves: the array index *)
(* is bounds-checked (a panic), and `cursor -= 1` at 0 either panics (a    *)
(* build with overflow checks) or wraps (a build without), after which the *)
(* index panics.  Each operation yields the set of its possible outcomes.  *)
(***************************************************************************)
StackNew == [values |-> [i \in 0..(STACK_MAX - 1) |-> PosZero], cursor |-> 0]

StackPush(st, value) ==
    IF st.cursor \in 0..(STACK_MAX - 1)
    THEN {[panic |-> FALSE,
           stack |-> [values |-> [st.values EXCEPT ![st.cursor] = value],
                      cursor |-> (st.cursor + 1) % USIZE_MODULUS]]}
    ELSE {[panic |-> TRUE, stack |-> st]}

\* a pop that clamps at the bottom of the stack instead of faulting
StackPop_Clamped(st) ==
    IF st.cursor = 0
    THEN {[panic |-> FALSE, stack |-> st, value |-> st.values[0]]}
    ELSE {[panic |-> FALSE, stack |-> [st EXCEPT !.cursor = st.cursor - 1],
           value |-> st.values[st.cursor - 1]]}

StackPop(st) ==
    IF st.cursor = 0
    THEN {[panic |-> TRUE, stack |-> st, value |-> NaN],
          [panic |-> TRUE, stack |-> [st EXCEPT !.cursor = USIZE_MODULUS - 1],
           value |-> NaN]}
    ELSE LET c == st.cursor - 1
         IN  IF c \in 0..(STACK_MAX - 1)
             THEN {[panic |-> FALSE, stack |-> [st EXCEPT !.cursor = c],
                    value |-> st.values[c]]}
             ELSE {[panic |-> TRUE, stack |-> [st EXCEPT !.cursor = c], value |-> NaN]}

\* the arithmetic of the four binary arms
Apply(op, a, b) ==
    CASE op = ADD -> AddV(a, b)
      [] op = SUBTRACT -> SubV(a, b)
      [] op = MULTIPLY -> MulV(a, b)
      [] op = DIVIDE -> DivV(a, b)

\* the operands taken in the order they are popped: b op a
BinaryEffect_Swapped(st, op) ==
    UNION {
        IF pb.panic THEN {[panic |-> TRUE, stack |-> pb.stack]}
        ELSE UNION {
            IF pa.panic THEN {[panic |-> TRUE, stack |-> pa.stack]}
            ELSE StackPush(pa.stack, Apply(op, pb.value, pa.value))
            : pa \in StackPop(pb.stack) }
        : pb \in StackPop(st) }

\* let b = stack.pop(); let a = stack.pop(); stack.push(a op b);
BinaryEffect(st, op) ==
    UNION {
        IF pb.panic THEN {[panic |-> TRUE, stack |-> pb.stack]}
        ELSE UNION {
            IF pa.panic THEN {[panic |-> TRUE, stack |-> pa.stack]}
            ELSE StackPush(pa.stack, Apply(op, pa.value, pb.value))
            : pa \in StackPop(pb.stack) }
        : pb \in StackPop(st) }

\* let value = -stack.pop(); stack.push(value);
\* a NEGATE that pushes the popped value back as it was
NegateEffect_Unnegated(st) ==
    UNION {
        IF p.panic THEN {[panic |-> TRUE, stack |-> p.stack]}
        ELSE StackPush(p.stack, p.value)
        : p \in StackPop(st) }

NegateEffect(st) ==
    UNION {
        IF p.panic THEN {[panic |-> TRUE, stack |-> p.stack]}
        ELSE StackPush(p.stack, NegV(p.value))
        : p \in StackPop(st) }

(***************************************************************************)
(* State.                                                                  *)
(***************************************************************************)
VARIABLES
    chunk,        \* the Chunk: instructions, lines, pool
    written,      \* history: the writes issued so far, in order
    budget,       \* writes the driver may still issue
    phase,        \* "build", "vm" (VM::new done), "running", "done"
    stack,        \* VM.stack: values, cursor
    idx,          \* the instruction pointer of Chunk::interpret
    steps,        \* history: loop iterations begun in the current run
    result,       \* what the current run returned, "Panic" when it unwound
    output,       \* the values the current run printed as its result
    runs,         \* calls of VM::interpret so far
    startCursor,  \* history: stack.cursor when the current run began
    tracing,      \* cfg!(debug_assertions) of the build the VM runs in
    didx,         \* the offset Chunk::disassemble is at
    records       \* the records the current call of Chunk::disassemble printed

vars == <<chunk, written, budget, phase, stack, idx, steps, result, output, runs,
          startCursor, tracing, didx, records>>
vmVars == <<phase, stack, idx, steps, result, output, runs, startCursor, tracing>>
disVars == <<didx, records>>

\* The chunk that n writes of Constant(FillLiteral) at FillLine build from
\* the empty one: Filled(0) = ChunkNew and
\* Filled(n + 1) = ConstantUnmarshal(Filled(n), FillLiteral, FillLine).
Filled(n) ==
    [instructions |->
        [i \in 1..(2 * n) |->
            IF i % 2 = 1 THEN CONSTANT_OP ELSE ((i \div 2) - 1) % U8_MODULUS],
     lines |-> [i \in 1..(2 * n) |-> IF i % 2 = 1 THEN FillLine ELSE 0],
     pool |-> [i \in 1..n |-> FillLiteral]]

FilledWrites(n) ==
    [i \in 1..n |-> [inst |-> ConstantNew(FillLiteral), line |-> FillLine,
                     offset |-> 2 * (i - 1)]]

\* The chunks the model starts from: the empty one, and the ones that hold
\* one constant less than, and exactly as many constants as, a u8 indexes.
Fills == {0, U8_MODULUS - 1, U8_MODULUS}

\* The chunk of main.rs, for the literals c0, c1, c2 (1.2, 3.4, 5.6 there).
DriverChunk(c0, c1, c2) ==
    LET w1 == ConstantUnmarshal(ChunkNew, c0, 100)
        w2 == ConstantUnmarshal(w1, c1, 100)
        w3 == AddUnmarshal(w2, 100)
        w4 == ConstantUnmarshal(w3, c2, 100)
        w5 == DivideUnmarshal(w4, 100)
        w6 == NegateUnmarshal(w5, 100)
    IN  ReturnUnmarshal(w6, 101)

DriverWrites(c0, c1, c2) ==
    << [inst |-> ConstantNew(c0), line |-> 100, offset |-> 0],
       [inst |-> ConstantNew(c1), line |-> 100, offset |-> 2],
       [inst |-> AddNew, line |-> 100, offset |-> 4],
       [inst |-> ConstantNew(c2), line |-> 100, offset |-> 5],
       [inst |-> DivideNew, line |-> 100, offset |-> 7],
       [inst |-> NegateNew, line |-> 100, offset |-> 8],
       [inst |-> ReturnNew, line |-> 101, offset |-> 9] >>

DriverLiterals == Literals \cup {FillLiteral}

\* The chunks a behaviour starts from, each with the writes that built it
\* and the writes the driver still issues: the empty chunk, the long chunks
\* of constants, and the finished chunk of main.rs.
Starts ==
    {[chunk |-> Filled(n), written |-> FilledWrites(n),
      budget |-> IF n = 0 THEN MaxWrites ELSE MaxTail] : n \in Fills}
    \cup
    {[chunk |-> DriverChunk(c[1], c[2], c[3]),
      written |-> DriverWrites(c[1], c[2], c[3]),
      budget |-> 0] : c \in DriverLiterals \X DriverLiterals \X DriverLiterals}

InitVM ==
    /\ phase = "build"
    /\ stack = StackNew
    /\ idx = 0
    /\ steps = 0
    /\ result = "None"
    /\ output = <<>>
    /\ runs = 0
    /\ startCursor = 0
    /\ tracing = FALSE
    /\ didx = 0
    /\ records = <<>>

Init ==
    /\ \E start \in Starts :
        /\ chunk = start.chunk
        /\ written = start.written
        /\ budget = start.budget
    /\ InitVM

(***************************************************************************)
(* The driver's writes: X::new().write(&mut chunk, line).                  *)
(***************************************************************************)
Wrote(inst, line) ==
    /\ written' = Append(written, [inst |-> inst, line |-> line,
                                   offset |-> Len(chunk.instructions)])
    /\ budget' = budget - 1
    /\ UNCHANGED <<vmVars, disVars>>

CanWrite == phase = "build" /\ budget > 0

WriteReturn ==
    /\ CanWrite
    /\ \E line \in LineNumbers :
        chunk' = ReturnUnmarshal(chunk, line) /\ Wrote(ReturnNew, line)

WriteNegate ==
    /\ CanWrite
    /\ \E line \in LineNumbers :
        chunk' = NegateUnmarshal(chunk, line) /\ Wrote(NegateNew, line)

WriteAdd ==
    /\ CanWrite
    /\ \E line \in LineNumbers :
        chunk' = AddUnmarshal(chunk, line) /\ Wrote(AddNew, line)

WriteSubtract ==
    /\ CanWrite
    /\ \E line \in LineNumbers :
        chunk' = SubtractUnmarshal(chunk, line) /\ Wrote(SubtractNew, line)

WriteMultiply ==
    /\ CanWrite
    /\ \E line \in LineNumbers :
        chunk' = MultiplyUnmarshal(chunk, line) /\ Wrote(MultiplyNew, line)

WriteDivide ==
    /\ CanWrite
    /\ \E line \in LineNumbers :
        chunk' = DivideUnmarshal(chunk, line) /\ Wrote(DivideNew, line)

WriteConstant ==
    /\ CanWrite
    /\ \E value \in Literals, line \in LineNumbers :
        chunk' = ConstantUnmarshal(chunk, value, line) /\ Wrote(ConstantNew(value), line)

(***************************************************************************)
(* VM.                                                                     *)
(***************************************************************************)
\* VM::new(chunk): the VM takes the chunk, which is written no more.  The
\* build is either one with debug assertions (it traces) or one without.
VMNew ==
    /\ phase = "build"
    /\ phase' = "vm"
    /\ stack' = StackNew
    /\ tracing' \in BOOLEAN
    /\ UNCHANGED <<chunk, written, budget, idx, steps, result, output, runs,
                   startCursor, disVars>>

\* VM::interpret, up to the first test of the loop: self.stack is passed on
\* as it is, idx starts at 0.  A run that panicked has unwound the driver.
Interpret ==
    /\ phase \in {"vm", "done"}
    /\ result # "Panic"
    /\ runs < MaxRuns
    /\ phase' = "running"
    /\ idx' = 0
    /\ steps' = 0
    /\ result' = "None"
    /\ output' = <<>>
    /\ runs' = runs + 1
    /\ startCursor' = stack.cursor
    /\ UNCHANGED <<chunk, written, budget, stack, tracing, disVars>>

\* the loop is at an instruction with opcode op
Fetch(op) ==
    /\ phase = "running"
    /\ InRange(chunk.instructions, idx)
    /\ At(chunk.instructions, idx) = op

\* the run ends: return res, or unwind
Finish(res) ==
    /\ phase' = "done"
    /\ result' = res
    /\ UNCHANGED idx

\* a loop that forgets to move the instruction pointer
Advance_Stuck(consumed) ==
    /\ idx' = idx
    /\ UNCHANGED <<phase, result>>

\* idx += consumed
Advance(consumed) ==
    /\ idx' = idx + consumed
    /\ UNCHANGED <<phase, result>>

Iteration ==
    /\ steps' = steps + 1
    /\ UNCHANGED <<chunk, written, budget, runs, startCursor, tracing, disVars>>

\* The tracing of a build with debug assertions (t): stack.debug() reads
\* values[0..cursor] at the top of the loop and the println! of an arm
\* reads self.lines[idx]; either index panics when out of range.
StackDebugFault(t) == t /\ stack.cursor \notin 0..STACK_MAX
TraceFault(t) == StackDebugFault(t) \/ (t /\ ~InRange(chunk.lines, idx))

\* CONSTANT arm
ExecConstantT(t) ==
    /\ Fetch(CONSTANT_OP)
    /\ Iteration
    /\ LET m == ConstantMarshal(chunk, idx)
       IN  IF m.panic \/ TraceFault(t)
           THEN Finish("Panic") /\ UNCHANGED <<stack, output>>
           ELSE \E o \in StackPush(stack, m.inst.value) :
                    /\ stack' = o.stack
                    /\ UNCHANGED output
                    /\ IF o.panic THEN Finish("Panic") ELSE Advance(m.consumed)

ExecConstant == ExecConstantT(tracing)

\* ADD, SUBTRACT, MULTIPLY and DIVIDE arms
ExecBinaryT(op, t) ==
    /\ Fetch(op)
    /\ Iteration
    /\ LET m == Marshal(op, chunk, idx)
       IN  IF TraceFault(t)
           THEN Finish("Panic") /\ UNCHANGED <<stack, output>>
           ELSE \E o \in BinaryEffect(stack, op) :
                    /\ stack' = o.stack
                    /\ UNCHANGED output
                    /\ IF o.panic THEN Finish("Panic") ELSE Advance(m.consumed)

ExecBinary(op) == ExecBinaryT(op, tracing)

ExecAdd == ExecBinary(ADD)
ExecSubtract == ExecBinary(SUBTRACT)
ExecMultiply == ExecBinary(MULTIPLY)
ExecDivide == ExecBinary(DIVIDE)

\* NEGATE arm
ExecNegateT(t) ==
    /\ Fetch(NEGATE)
    /\ Iteration
    /\ LET m == NegateMarshal(chunk, idx)
       IN  IF TraceFault(t)
           THEN Finish("Panic") /\ UNCHANGED <<stack, output>>
           ELSE \E o \in NegateEffect(stack) :
                    /\ stack' = o.stack
                    /\ UNCHANGED output
                    /\ IF o.panic THEN Finish("Panic") ELSE Advance(m.consumed)

ExecNegate == ExecNegateT(tracing)

\* RETURN arm: println!("{}", stack.pop()); return InterpretResult::Ok
ExecReturnT(t) ==
    /\ Fetch(RETURN)
    /\ Iteration
    /\ IF TraceFault(t)
       THEN Finish("Panic") /\ UNCHANGED <<stack, output>>
       ELSE \E p \in StackPop(stack) :
                /\ stack' = p.stack
                /\ IF p.panic
                   THEN Finish("Panic") /\ UNCHANGED output
                   ELSE Finish("Ok") /\ output' = Append(output, p.value)

\* a RETURN arm that prints the value and goes on with the loop
ExecReturn_Continues ==
    /\ Fetch(RETURN)
    /\ Iteration
    /\ \E p \in StackPop(stack) :
           /\ stack' = p.stack
           /\ IF p.panic
              THEN Finish("Panic") /\ UNCHANGED output
              ELSE Advance(1) /\ output' = Append(output, p.value)

ExecReturn == ExecReturnT(tracing)

Opcodes == {RETURN, CONSTANT_OP, NEGATE, ADD, SUBTRACT, MULTIPLY, DIVIDE}

\* the two places that return InterpretResult::RuntimeError: the default arm
\* of the match (reached after the stack.debug() of a tracing build), and
\* the end of the loop
ExecRuntimeErrorT(t) ==
    /\ phase = "running"
    /\ ~(InRange(chunk.instructions, idx) /\ At(chunk.instructions, idx) \in Opcodes)
    /\ IF InRange(chunk.instructions, idx) /\ StackDebugFault(t)
       THEN Finish("Panic")
       ELSE Finish("RuntimeError")
    /\ steps' = IF InRange(chunk.instructions, idx) THEN steps + 1 ELSE steps
    /\ UNCHANGED <<chunk, written, budget, stack, output, runs, startCursor,
                   tracing, disVars>>

\* a loop whose end reports success
ExecRuntimeError_Ok ==
    /\ phase = "running"
    /\ ~(InRange(chunk.instructions, idx) /\ At(chunk.instructions, idx) \in Opcodes)
    /\ Finish("Ok")
    /\ steps' = IF InRange(chunk.instructions, idx) THEN steps + 1 ELSE steps
    /\ UNCHANGED <<chunk, written, budget, stack, output, runs, startCursor,
                   tracing, disVars>>

ExecRuntimeError == ExecRuntimeErrorT(tracing)

\* one iteration of the loop in a build that traces (t) or does not
ExecT(t) ==
    \/ ExecConstantT(t) \/ ExecBinaryT(ADD, t) \/ ExecBinaryT(SUBTRACT, t)
    \/ ExecBinaryT(MULTIPLY, t) \/ ExecBinaryT(DIVIDE, t)
    \/ ExecNegateT(t) \/ ExecReturnT(t) \/ ExecRuntimeErrorT(t)

(***************************************************************************)
(* Chunk::disassemble.  The text of an instruction is the sequence of the  *)
(* pieces its format string joins.                                         *)
(***************************************************************************)
ReturnDisassemble(inst) == <<"RETURN">>
NegateDisassemble(inst) == <<"NEGATE">>
AddDisassemble(inst) == <<"ADD">>
SubtractDisassemble(inst) == <<"SUBTRACT">>
MultiplyDisassemble(inst) == <<"MULTIPLY">>
DivideDisassemble(inst) == <<"DIVIDE">>
ConstantDisassemble(inst) == <<"CONSTANT: ", inst.value>>

Disassemble(inst) ==
    CASE inst.kind = RETURN -> ReturnDisassemble(inst)
      [] inst.kind = NEGATE -> NegateDisassemble(inst)
      [] inst.kind = ADD -> AddDisassemble(inst)
      [] inst.kind = SUBTRACT -> SubtractDisassemble(inst)
      [] inst.kind = MULTIPLY -> MultiplyDisassemble(inst)
      [] inst.kind = DIVIDE -> DivideDisassemble(inst)
      [] inst.kind = CONSTANT_OP -> ConstantDisassemble(inst)

\* chunk.disassemble(name), on the chunk the driver is building: the header
\* line, and idx = 0
DisassembleCall ==
    /\ phase = "build"
    /\ phase' = "disassemble"
    /\ didx' = 0
    /\ records' = <<>>
    /\ UNCHANGED <<chunk, written, budget, stack, idx, steps, result, output,
                   runs, startCursor, tracing>>

\* a loop whose default arm steps over the byte instead of panicking
DisassembleStep_SkipsUnknown ==
    /\ phase = "disassemble"
    /\ InRange(chunk.instructions, didx)
    /\ LET op == At(chunk.instructions, didx)
           m == IF op \in Opcodes THEN Marshal(op, chunk, didx)
                                  ELSE [panic |-> FALSE, consumed |-> 1]
       IN  IF m.panic \/ ~InRange(chunk.lines, didx)
           THEN /\ phase' = "aborted"
                /\ UNCHANGED <<didx, records>>
           ELSE /\ records' = IF op \in Opcodes
                                THEN Append(records,
                                            [offset |-> didx,
                                             line |-> At(chunk.lines, didx),
                                             text |-> Disassemble(m.inst)])
                                ELSE records
                /\ didx' = didx + m.consumed
                /\ UNCHANGED phase
    /\ UNCHANGED <<chunk, written, budget, stack, idx, steps, result, output,
                   runs, startCursor, tracing>>

\* one iteration of its loop: the match on the byte at idx, the marshal and
\* the disassemble of the arm, the println! that reads self.lines[idx].
\* The default arm, a marshal out of range and a line out of range panic.
DisassembleStep ==
    /\ phase = "disassemble"
    /\ InRange(chunk.instructions, didx)
    /\ LET op == At(chunk.instructions, didx)
           m == IF op \in Opcodes THEN Marshal(op, chunk, didx)
                                  ELSE [panic |-> TRUE]
       IN  IF m.panic \/ ~InRange(chunk.lines, didx)
           THEN /\ phase' = "aborted"
                /\ UNCHANGED <<didx, records>>
           ELSE /\ records' = Append(records,
                                     [offset |-> didx,
                                      line |-> At(chunk.lines, didx),
                                      text |-> Disassemble(m.inst)])
                /\ didx' = didx + m.consumed
                /\ UNCHANGED phase
    /\ UNCHANGED <<chunk, written, budget, stack, idx, steps, result, output,
                   runs, startCursor, tracing>>

\* the loop ends and the call returns to the driver
DisassembleReturn ==
    /\ phase = "disassemble"
    /\ ~InRange(chunk.instructions, didx)
    /\ phase' = "build"
    /\ didx' = 0
    /\ records' = <<>>
    /\ UNCHANGED <<chunk, written, budget, stack, idx, steps, result, output,
                   runs, startCursor, tracing>>

Write ==
    \/ WriteReturn \/ WriteConstant \/ WriteNegate \/ WriteAdd
    \/ WriteSubtract \/ WriteMultiply \/ WriteDivide

Exec ==
    \/ ExecConstant \/ ExecAdd \/ ExecSubtract \/ ExecMultiply \/ ExecDivide
    \/ ExecNegate \/ ExecReturn \/ ExecRuntimeError

DisassembleChunk == DisassembleCall \/ DisassembleStep \/ DisassembleReturn

Next == Write \/ VMNew \/ Interpret \/ Exec \/ DisassembleChunk

Spec == Init /\ [][Next]_vars

(***************************************************************************)
(* Chunk::interpret and Chunk::disassemble as functions of any chunk: the  *)
(* byte stream is any sequence of bytes, known opcodes and others, with a  *)
(* line for every byte and a pool of none or two constants.                *)
(***************************************************************************)
MaxRawLen == 3

\* the seven opcodes, and a byte below and a byte above them
RawBytes == 0..(DIVIDE + 1)
RawStreams == UNION {[1..n -> RawBytes] : n \in 0..MaxRawLen}
RawPools == {<<>>, <<<<6, 5>>, <<17, 5>>>>}

RawInit ==
    /\ \E s \in RawStreams, p \in RawPools :
        chunk = [instructions |-> s,
                 lines |-> [i \in 1..Len(s) |-> 100],
                 pool |-> p]
    /\ written = <<>>
    /\ budget = 0
    /\ InitVM

RawNext == VMNew \/ Interpret \/ Exec \/ DisassembleChunk

RawSpec == RawInit /\ [][RawNext]_vars

(***************************************************************************)
(* Helpers of the properties, over the history of writes.                  *)
(***************************************************************************)
\* the index in `written` of the write that produced byte o
WriterOf(o) ==
    CHOOSE k \in 1..Len(written) :
        /\ written[k].offset <= o
        /\ (k = Len(written) \/ o < written[k + 1].offset)

\* the constants written before the k-th write: the pool position of its literal
ConstantsBefore(k) ==
    Cardinality({j \in 1..(k - 1) : written[j].inst.kind = CONSTANT_OP})

\* the bytes the encoding of an instruction occupies
EncodedSize(inst) == IF inst.kind = CONSTANT_OP THEN 2 ELSE 1

BinaryOps == {ADD, SUBTRACT, MULTIPLY, DIVIDE}

(***************************************************************************)
(* C1.  After any sequence of writes, the line recorded for every byte     *)
(* offset of the instruction stream is the line number that was passed to  *)
(* the write that produced that byte, the operand byte of a CONSTANT       *)
(* included.                                                               *)
(***************************************************************************)
C1_LineOfEveryByte ==
    \A o \in 0..(Len(chunk.instructions) - 1) :
        /\ InRange(chunk.lines, o)
        /\ At(chunk.lines, o) = written[WriterOf(o)].line

(***************************************************************************)
(* C2.  Round trip: marshalling at the offset of the instruction that was  *)
(* just written yields an instruction of the same kind with the same       *)
(* operand (for CONSTANT the literal that was written), and consumed is 2  *)
(* for CONSTANT and 1 for every other kind.                                *)
(***************************************************************************)
C2_RoundTrip ==
    (phase = "build" /\ Len(written) > 0) =>
        LET w == written[Len(written)]
            m == Marshal(w.inst.kind, chunk, w.offset)
        IN  /\ ~m.panic
            /\ m.inst = w.inst
            /\ m.consumed = EncodedSize(w.inst)

(***************************************************************************)
(* C3.  The constant pool never holds more than 256 entries (a Constant    *)
(* write at 256 entries fails and changes nothing), so the index byte of   *)
(* every written CONSTANT is the pool position of its literal, untruncated.*)
(***************************************************************************)
C3_PoolCapacity ==
    /\ Len(chunk.pool) <= U8_MODULUS
    /\ \A k \in 1..Len(written) :
        written[k].inst.kind = CONSTANT_OP =>
            At(chunk.instructions, written[k].offset + 1) = ConstantsBefore(k)

(***************************************************************************)
(* C4.  Every call of VM::interpret starts at instruction pointer 0 with   *)
(* an empty operand stack, a second call after an earlier run included.    *)
(***************************************************************************)
C4_RunStartsFresh ==
    (phase = "running" /\ steps = 0) => (idx = 0 /\ stack.cursor = 0)

(***************************************************************************)
(* C5.  In every state of an interpretation run the stack cursor is within *)
(* 0..256: it never wraps and never goes negative.                         *)
(***************************************************************************)
C5_CursorInRange ==
    stack.cursor \in 0..STACK_MAX

(***************************************************************************)
(* C6.  Stack discipline: an instruction that would pop an empty stack     *)
(* (NEGATE or RETURN at depth 0, a binary operator at depth < 2) or push a *)
(* 257th value (CONSTANT at depth 256) ends the run at that instruction in *)
(* a fault (the panic): nothing runs after it, the run reports no value    *)
(* and is never Completed.                                                 *)
(***************************************************************************)
WouldFault ==
    /\ phase = "running"
    /\ InRange(chunk.instructions, idx)
    /\ LET op == At(chunk.instructions, idx)
       IN  \/ op \in {NEGATE, RETURN} /\ stack.cursor = 0
           \/ op \in BinaryOps /\ stack.cursor < 2
           \/ op = CONSTANT_OP /\ stack.cursor = STACK_MAX

C6_StackDiscipline ==
    /\ [][WouldFault =>
            (phase' = "done" /\ result' = "Panic" /\ idx' = idx /\ output' = output)]_vars
    /\ [](result = "Panic" => (phase = "done" /\ output = <<>> /\ ~ENABLED Next))

\* a run that faulted on the push of a 257th value
C6_Witness ==
    /\ result = "Panic"
    /\ InRange(chunk.instructions, idx)
    /\ At(chunk.instructions, idx) = CONSTANT_OP
    /\ stack.cursor = STACK_MAX

(***************************************************************************)
(* C7.  Every run terminates: while it runs the loop can always take its   *)
(* next iteration, each iteration that does not end the run moves the      *)
(* instruction pointer forward by 1 or 2, so a run takes at most           *)
(* instructions.len() iterations; it ends in exactly one of Completed (one *)
(* value printed) or a fault (RuntimeError or the panic, nothing printed). *)
(***************************************************************************)
C7_Bounded ==
    /\ steps <= Len(chunk.instructions)
    /\ phase = "running" => (steps <= idx /\ idx <= Len(chunk.instructions))
    /\ phase = "running" => result = "None"
    /\ phase = "done" =>
        /\ result \in {"Ok", "RuntimeError", "Panic"}
        /\ result = "Ok" => Len(output) = 1
        /\ result # "Ok" => output = <<>>

C7_Terminates ==
    /\ []C7_Bounded
    /\ [][(phase = "running" /\ phase' = "running") => idx' \in {idx + 1, idx + 2}]_vars
    /\ [](phase = "running" => ENABLED Exec)

\* a Completed run that decoded a CONSTANT and took three iterations or more
C7_Witness ==
    /\ phase = "done"
    /\ result = "Ok"
    /\ steps >= 3
    /\ idx > steps - 1

(***************************************************************************)
(* C8.  A chunk built by writes that holds no RETURN instruction (the      *)
(* empty chunk included) never ends in Completed: unless the run faults on *)
(* the stack it exhausts the stream and returns RuntimeError.  No run      *)
(* returns CompileError.                                                   *)
(***************************************************************************)
NoReturnWritten == \A k \in 1..Len(written) : written[k].inst.kind # RETURN

C8_NoReturnNoCompletion ==
    /\ result \in {"None", "Ok", "RuntimeError", "Panic"}
    /\ (phase = "done" /\ NoReturnWritten) =>
        /\ result # "Ok"
        /\ result # "Panic" =>
            (result = "RuntimeError" /\ idx = Len(chunk.instructions))

\* a RuntimeError run over a chunk with no RETURN instruction, one of whose
\* operand bytes has the value of the RETURN opcode
C8_Witness ==
    /\ phase = "done"
    /\ NoReturnWritten
    /\ result = "RuntimeError"
    /\ \E o \in 0..(Len(chunk.instructions) - 1) : At(chunk.instructions, o) = RETURN

(***************************************************************************)
(* C9.  A RETURN reached with a non-empty stack completes the run: the     *)
(* output is the value on top of the stack, the depth drops by one, and    *)
(* the instruction pointer never moves past the first RETURN of the chunk. *)
(***************************************************************************)
ReturnOffsets ==
    {written[k].offset : k \in {j \in 1..Len(written) : written[j].inst.kind = RETURN}}

C9_ReturnCompletes ==
    /\ [][(Fetch(RETURN) /\ stack.cursor \in 1..STACK_MAX) =>
            /\ phase' = "done"
            /\ result' = "Ok"
            /\ output' = Append(output, stack.values[stack.cursor - 1])
            /\ stack' = [stack EXCEPT !.cursor = stack.cursor - 1]
            /\ idx' = idx]_vars
    /\ [](\A r \in ReturnOffsets : idx <= r)
    /\ [](result = "Ok" => (phase = "done" /\ Len(output) = 1 /\ ~ENABLED Exec))

\* a Completed run whose RETURN is followed by another instruction
C9_Witness ==
    /\ result = "Ok"
    /\ At(chunk.instructions, idx) = RETURN
    /\ idx + 1 < Len(chunk.instructions)
    /\ output = <<stack.values[stack.cursor]>>

(***************************************************************************)
(* C10.  A binary opcode at depth d >= 2, a pushed before b: the result    *)
(* a op b (not b op a) replaces the two, the depth becomes d - 1 and the   *)
(* values below are unchanged.  NEGATE at depth d >= 1 replaces the top by *)
(* its negation and keeps the depth.  CONSTANT raises the depth by one.    *)
(***************************************************************************)
BelowUnchanged(n) == \A i \in 0..(n - 1) : stack'.values[i] = stack.values[i]

C10_StackEffects ==
    [][LET d == stack.cursor
       IN  /\ \A op \in BinaryOps :
                (Fetch(op) /\ d \in 2..STACK_MAX) =>
                    /\ stack'.cursor = d - 1
                    /\ stack'.values[d - 2] =
                          Apply(op, stack.values[d - 2], stack.values[d - 1])
                    /\ BelowUnchanged(d - 2)
                    /\ phase' = "running"
           /\ (Fetch(NEGATE) /\ d \in 1..STACK_MAX) =>
                    /\ stack'.cursor = d
                    /\ stack'.values[d - 1] = NegV(stack.values[d - 1])
                    /\ BelowUnchanged(d - 1)
                    /\ phase' = "running"
           /\ (Fetch(CONSTANT_OP) /\ d \in 0..(STACK_MAX - 1)) =>
                    /\ stack'.cursor = d + 1
                    /\ BelowUnchanged(d)
                    /\ phase' = "running"]_vars

\* the run has just executed SUBTRACT on 1.2 (pushed first) and 3.4 (on top)
C10_Witness ==
    /\ phase = "running"
    /\ idx = 5
    /\ At(chunk.instructions, 4) = SUBTRACT
    /\ chunk.pool = <<<<6, 5>>, <<17, 5>>>>
    /\ startCursor = 0
    /\ stack.cursor = 1
    /\ stack.values[0] = <<-11, 5>>

(***************************************************************************)
(* C11.  A run of the chunk main.rs writes, CONSTANT c0, CONSTANT c1, ADD, *)
(* CONSTANT c2, DIVIDE, NEGATE, RETURN, ends with the result Ok, has       *)
(* printed -((c0 + c1) / c2) and nothing else, and leaves the stack empty. *)
(***************************************************************************)
C11_EndToEnd ==
    \A c0 \in DriverLiterals, c1 \in DriverLiterals, c2 \in DriverLiterals :
        (phase = "done" /\ written = DriverWrites(c0, c1, c2)) =>
            /\ result = "Ok"
            /\ output = <<NegV(DivV(AddV(c0, c1), c2))>>
            /\ stack.cursor = 0
            /\ idx = 9

\* the run of main.rs itself (1.2, 3.4, 5.6) has printed -23/28
C11_Witness ==
    /\ written = DriverWrites(<<6, 5>>, <<17, 5>>, <<28, 5>>)
    /\ chunk.instructions = <<CONSTANT_OP, 0, CONSTANT_OP, 1, ADD, CONSTANT_OP, 2,
                              DIVIDE, NEGATE, RETURN>>
    /\ chunk.pool = <<<<6, 5>>, <<17, 5>>, <<28, 5>>>>
    /\ phase = "done"
    /\ result = "Ok"
    /\ output = << <<-23, 28>> >>
    /\ stack.cursor = 0

(***************************************************************************)
(* C12.  On a chunk built by writes, the offset the interpreter is at and  *)
(* the offset the disassembler is at are always the offset of a written    *)
(* opcode byte or the end of the stream, never the operand byte of a       *)
(* CONSTANT; and the operand that the decoding of a CONSTANT reads at      *)
(* offset + 1 lies before the end of the stream.                           *)
(***************************************************************************)
Boundaries == {written[k].offset : k \in 1..Len(written)}

WalksOnBoundary(o) ==
    /\ o \in Boundaries \cup {Len(chunk.instructions)}
    /\ (InRange(chunk.instructions, o) /\ At(chunk.instructions, o) = CONSTANT_OP)
          => InRange(chunk.instructions, o + 1)

C12_OnlyBoundaries ==
    /\ phase = "running" => WalksOnBoundary(idx)
    /\ phase = "disassemble" => WalksOnBoundary(didx)

\* the run of the chunk of main.rs has stepped over the CONSTANT at offset 5,
\* whose operand byte at offset 6 has the value of the CONSTANT opcode
C12_Witness ==
    /\ phase = "running"
    /\ Len(written) = 7
    /\ At(chunk.instructions, 5) = CONSTANT_OP
    /\ At(chunk.instructions, 6) = CONSTANT_OP
    /\ 6 \notin Boundaries
    /\ idx = 7

(***************************************************************************)
(* C13.  The marshal of every instruction kind fails at an offset whose    *)
(* byte is not the opcode of that kind: an offset at or beyond the end of  *)
(* the stream, the operand byte of a CONSTANT, or the opcode of another    *)
(* kind.  The marshal of a CONSTANT also fails when its operand byte is    *)
(* not a position of the pool.                                             *)
(***************************************************************************)
C13_MarshalRejects ==
    \A op \in Opcodes : \A o \in 0..Len(chunk.instructions) :
        /\ (~InRange(chunk.instructions, o) \/ At(chunk.instructions, o) # op)
              => Marshal(op, chunk, o).panic
        /\ (/\ op = CONSTANT_OP
            /\ InRange(chunk.instructions, o + 1)
            /\ At(chunk.instructions, o + 1) >= Len(chunk.pool))
              => Marshal(op, chunk, o).panic

(***************************************************************************)
(* C14.  On any byte stream: when the interpreter is at an offset whose    *)
(* byte is none of the seven opcodes, its step ends the run at that offset *)
(* with RuntimeError and leaves the stack and the output as they were;     *)
(* when the disassembler is at such an offset, its step aborts there.  The *)
(* offset either of them faults at is the one the decoding walk of the     *)
(* byte stream alone gives, whatever the pool, the build and the run.      *)
(***************************************************************************)
RECURSIVE DecodeWalkFault(_, _)
\* the first offset at or after o, stepping by the size of each encoding,
\* whose byte is no opcode; -1 when the walk ends without one
DecodeWalkFault(s, o) ==
    IF ~InRange(s, o) THEN -1
    ELSE IF At(s, o) \notin Opcodes THEN o
    ELSE DecodeWalkFault(s, o + (IF At(s, o) = CONSTANT_OP THEN 2 ELSE 1))

AtUnknown(o) ==
    InRange(chunk.instructions, o) /\ At(chunk.instructions, o) \notin Opcodes

C15_TracingSideChannel ==
    /\ []((phase = "running" /\ InRange(chunk.instructions, idx)) =>
              /\ InRange(chunk.lines, idx)
              /\ ~TraceFault(TRUE))
    /\ [][ExecT(TRUE) <=> ExecT(FALSE)]_vars

\* a tracing build has run the chunk of main.rs to its RETURN
C15_Witness ==
    /\ tracing
    /\ Len(written) = 7
    /\ phase = "done"
    /\ result = "Ok"
    /\ idx = 9
    /\ At(chunk.lines, idx) = 101
    /\ output = << <<-23, 28>> >>

(***************************************************************************)
(* C16.  After any sequence of writes the line table has no more entries   *)
(* than there are maximal runs of consecutive bytes with one line number:  *)
(* a byte on the line of the entry before it adds no entry.                *)
(***************************************************************************)
MaximalRuns(l) == Cardinality({i \in 1..Len(l) : i = 1 \/ l[i] # l[i - 1]})

C16_LinesCoalesced == Len(chunk.lines) <= MaximalRuns(chunk.lines)

(***************************************************************************)
(* C17.  After any sequence of writes the line table covers as many bytes  *)
(* as the instruction stream holds, and every write adds to both the size  *)
(* of the encoding it appends: 1 byte, or 2 for a CONSTANT.                *)
(***************************************************************************)
C17_LineCoverage ==
    /\ [](Len(chunk.lines) = Len(chunk.instructions))
    /\ [][written' # written =>
              LET size == EncodedSize(written'[Len(written')].inst)
              IN  /\ Len(chunk'.instructions) = Len(chunk.instructions) + size
                  /\ Len(chunk'.lines) = Len(chunk.lines) + size]_vars

\* a CONSTANT and then an ADD are written: three bytes, three lines
C17_Witness ==
    /\ Len(written) = 2
    /\ written[1].inst.kind = CONSTANT_OP
    /\ written[2].inst.kind = ADD
    /\ Len(chunk.instructions) = 3
    /\ Len(chunk.lines) = 3

(***************************************************************************)
(* C18.  Every step leaves the instruction bytes, the lines and the pool   *)
(* entries there were as a prefix of the new ones.  A zero-operand write   *)
(* leaves the pool as it was, a CONSTANT write adds one entry to it, and   *)
(* any step that is no write (VM::new, interpret, disassemble) leaves the  *)
(* whole chunk as it was.                                                  *)
(***************************************************************************)
IsPrefix(s, t) == Len(s) <= Len(t) /\ SubSeq(t, 1, Len(s)) = s

C18_AppendOnly ==
    [][/\ IsPrefix(chunk.instructions, chunk'.instructions)
       /\ IsPrefix(chunk.lines, chunk'.lines)
       /\ IsPrefix(chunk.pool, chunk'.pool)
       /\ written' # written =>
              /\ Len(chunk'.instructions) > Len(chunk.instructions)
              /\ IF written'[Len(written')].inst.kind = CONSTANT_OP
                 THEN Len(chunk'.pool) = Len(chunk.pool) + 1
                 ELSE chunk'.pool = chunk.pool
       /\ written' = written => chunk' = chunk]_vars

\* 1.2 and then 3.4 are written, and a run of the two has ended
C18_Witness ==
    /\ Len(written) = 2
    /\ chunk.pool = <<<<6, 5>>, <<17, 5>>>>
    /\ chunk.instructions = <<CONSTANT_OP, 0, CONSTANT_OP, 1>>
    /\ phase = "done"
    /\ stack.cursor = 2

(***************************************************************************)
(* C19.  While a chunk built by n writes is disassembled, the k-th record  *)
(* printed carries the offset of the k-th write, the line passed to it and *)
(* the disassembly text of the instruction written; the call does not      *)
(* abort, at the end of the stream it has printed n records (those after a *)
(* RETURN too), and it leaves the stack alone.                             *)
(***************************************************************************)
C19_DisassemblyRecords ==
    /\ phase # "aborted"
    /\ phase = "disassemble" =>
          /\ Len(records) <= Len(written)
          /\ \A k \in 1..Len(records) :
                 records[k] = [offset |-> written[k].offset,
                               line |-> written[k].line,
                               text |-> Disassemble(written[k].inst)]
          /\ didx = Len(chunk.instructions) => Len(records) = Len(written)
          /\ stack = StackNew

(***************************************************************************)
(* C20.  In every chunk the driver has built by writes, the operand byte  *)
(* of every CONSTANT written is a position of the pool, so the marshal of  *)
(* a written CONSTANT never indexes outside the pool or the stream; also   *)
(* when more than 256 constants are written and the byte is the position   *)
(* modulo 256.  (A chunk handed to VM::new is one the driver had built.)   *)
(***************************************************************************)
C20_OperandInPool ==
    phase = "build" =>
        \A k \in 1..Len(written) :
            written[k].inst.kind = CONSTANT_OP =>
                /\ InRange(chunk.instructions, written[k].offset + 1)
                /\ At(chunk.instructions, written[k].offset + 1) < Len(chunk.pool)
                /\ ~ConstantMarshal(chunk, written[k].offset).panic

\* the 257th constant is written: its operand byte is 0, the pool holds 257
C20_Witness ==
    /\ phase = "build"
    /\ Len(written) = U8_MODULUS + 1
    /\ Len(chunk.pool) = U8_MODULUS + 1
    /\ written[U8_MODULUS + 1].inst.kind = CONSTANT_OP
    /\ At(chunk.instructions, written[U8_MODULUS + 1].offset + 1) = 0
    /\ At(chunk.instructions, written[U8_MODULUS].offset + 1) = U8_MODULUS - 1

====
